---- MODULE Spec2Model ----
(***************************************************************************)
(* Client-side synchronisation of the Codec frontend:                      *)
(*   - the per-job status polling of JobItem.jsx and JobDetailPage.jsx,    *)
(*   - the refresh of the job list in Sidebar.jsx,                         *)
(*   - the session lifecycle of AuthProvider (App.js lines 51-214, and the *)
(*     older revision in context/AuthContext.js).                          *)
(* React 18 (main.jsx: createRoot) batches the state setters of one        *)
(* handler into one commit, and the effects whose dependencies changed are *)
(* re-run with that commit: a handler together with the commit it causes   *)
(* is one action.                                                          *)
(***************************************************************************)
EXTENDS Integers, Sequences, FiniteSets, TLC

\* Bounds of the model.
MaxInflight == 2        \* status fetches in flight at once
MaxClock == 5           \* half seconds of wall-clock time that may pass
MaxReloads == 1         \* page reloads
MaxJobs == 3            \* jobs in a fetched job list
MaxCreated == 2         \* distinct creation times of the jobs in a list
MaxItems == 1           \* items of one drop
MaxBatch == 2           \* entries one readEntries call delivers
MaxDepth == 2           \* directory levels below a drop
MaxMore == 1            \* files a directory holds beyond its first batch
MaxFailures == 1        \* reads of one drop that fail
MaxCalls == 2           \* calls of renderLoginButton
MaxFiles == 1           \* files in the form
MaxRequests == 2        \* create-job requests in flight at once
MaxOthers == 2          \* further drops going on beside the one followed read by read
MaxOffered == 2         \* files the further drops and the selections bring in all

Null == "null"

(***************************************************************************)
(* Job status synchronisation: JobItem.jsx, JobDetailPage.jsx              *)
(***************************************************************************)
Statuses == {"PENDING", "PROGRESS", "SUCCESS", "FAILURE"}
JobIds == {"jA", "jB"}
SessionTokens == {"t1", "t2"}
\* the `result` object of a status response: absent, or a payload
Results == {Null, "m1"}
ErrorPayload == "Error fetching status."

IsActive(s) == s = "PENDING" \/ s = "PROGRESS"
IsTerminal(s) == s = "SUCCESS" \/ s = "FAILURE"

\* useState(null) of JobDetailPage
NoJob == [job_id |-> Null, status |-> Null, result_payload |-> Null]
NoTimer == [jid |-> Null, tok |-> Null]
NoFetch == [jid |-> Null, tok |-> Null, kind |-> "none", cancelled |-> FALSE, gone |-> FALSE,
            overtaken |-> FALSE]
NoResp == [job_id |-> Null, status |-> Null, result |-> Null]

\* what GET /jobs/{id}/status may answer for job jid
Responses(jid) == [job_id : {jid}, status : Statuses, result : Results]

VARIABLES
    viewer,          \* which viewer this run is about: the per-job viewers "item"
                     \* and "detail", or the job list of the sidebar, "registry"
    mounted,         \* the viewer component is mounted
    unmounted,       \* the viewer component was mounted and is gone for good
    jobId,           \* JobDetailPage: useParams().jobId; JobItem: job.job_id
    authToken,       \* useAuth().token as last rendered
    job,             \* the local snapshot (useState)
    error,           \* JobDetailPage, Sidebar: useState(null) error message (the
                     \* isLoading flag of JobDetailPage only selects what is
                     \* rendered and is left out)
    jobs,            \* Sidebar: useState([]) the job list
    fetched,         \* history: the job list as the last applied response carried it
    timer,           \* the live setInterval of the polling effect, with its closure
    inflight,        \* status fetches issued and not yet settled, in issue order
    terminalApplied, \* history: a terminal response of the current subscription was applied
    staleApplied,    \* history: a cancelled fetch settled into the current subscription
    pev,             \* history: the last handler that ran
    intervals        \* how many intervals the viewer has set and not cleared

pollVars == <<viewer, mounted, unmounted, jobId, authToken, job, error, jobs, fetched,
              timer, inflight, terminalApplied, staleApplied, pev, intervals>>

\* The session's state (AuthProvider), described with its handlers below.
VARIABLES
    rev,            \* which revision of AuthProvider runs: "new" | "old"
    clientId,       \* VITE_GOOGLE_CLIENT_ID is set
    google,         \* window.google exists (the provider's script has run)
    loaded,         \* the window's load event has fired
    phase,          \* "boot" before the mount effect, "waiting" with the load
                    \* listener registered, "ready" after the effect's work
    initialized,    \* accounts.id.initialize ran: the credential callback is registered
    promptPending,  \* accounts.id.prompt was invoked and its flow has not ended
    user,           \* useState: the decoded user
    token,          \* useState: the raw token
    isLoading,      \* useState
    storage,        \* localStorage['googleIdToken']
    clock,          \* wall-clock time, in half seconds
    escaped,        \* history: an exception left a handler uncaught
    credDelivered,  \* history: a decodable assertion went through the callback
    boot,           \* history: what the boot sequence read from storage, and when
    aev,            \* history: the last handler that ran
    reloads,        \* how many times the page was reloaded
    loggedOut,      \* history: logout ran and no credential came since
    prior           \* history: how the session stood when the page was reloaded

authVars == <<rev, clientId, google, loaded, phase, initialized, promptPending,
              user, token, isLoading, storage, clock, escaped, credDelivered,
              boot, aev, reloads, loggedOut, prior>>

\* The upload collector of CreateJobForm (handleDrop, getFilesFromEntry),
\* described with its callbacks below.
VARIABLES
    drop,           \* "idle" | "collecting" | "done": where handleDrop stands
    nodes,          \* the entries the collector has met, by their place in the drop
    files,          \* useState: the files of the form
    others,         \* the further drops whose collection is going on: the
                    \* files each will resolve with
    offered         \* history: the files the selections and the further drops
                    \* have brought since the list was last cleared

dropVars == <<drop, nodes, files, others, offered>>

\* The sign-in button (renderLoginButton of AuthProvider).
VARIABLES
    retries,        \* the pending setTimeout timers of renderLoginButton: when each is due, in ms
    bcalls,         \* how many times renderLoginButton was called
    scheduled,      \* history: how many timers renderLoginButton has set in all
    bev             \* history: the last step of renderLoginButton

buttonVars == <<retries, bcalls, scheduled, bev>>

\* The create-job form (CreateJobForm), its submit handler and the requests
\* it hands to the transport.
VARIABLES
    form,           \* "none" before the form is mounted, "shown", "gone" after it is unmounted
    prompt,         \* useState
    isSubmitting,   \* useState
    formError,      \* useState error
    requests,       \* calls of apiFetch that have not settled, in call order
    navigated,      \* the route navigate() was last called with
    fev             \* history: the last handler of the form or the transport that ran

formVars == <<form, prompt, isSubmitting, formError, requests, navigated, fev>>

uiVars == <<dropVars, buttonVars, formVars>>

vars == <<pollVars, authVars, uiVars>>

\* a variant of the effects' cleanup that clears nothing
Cleanup_None(n, t) == n

\* JobItem.jsx 54-56, JobDetailPage.jsx 76, Sidebar.jsx 42: the cleanup of the
\* effect run that left the interval t; a run that set no interval returns
\* no cleanup
Cleanup(n, t) == IF t # NoTimer THEN n - 1 ELSE n

\* the polling effect is run again by a commit: the cleanup of the last run,
\* then the body, which has set the interval t2 or none
Rerun(n, t, t2) == IF t2 # NoTimer THEN Cleanup(n, t) + 1 ELSE Cleanup(n, t)

PEvent(op, f, r, ch) == [op |-> op, fetch |-> f, resp |-> r, changed |-> ch]

\* JobItem.jsx 16-61: the polling effect, run at mount and when
\* [job.status, job.job_id, token] change; its cleanup clears the old interval.
ItemEffect(j, tok) ==
    IF IsActive(j.status) THEN [jid |-> j.job_id, tok |-> tok] ELSE NoTimer

\* JobDetailPage.jsx 68-77: the polling effect, run when [job, fetchJob] change.
DetailEffect(j, jid, tok) ==
    IF j = NoJob \/ (j.status # "PENDING" /\ j.status # "PROGRESS")
    THEN NoTimer
    ELSE [jid |-> jid, tok |-> tok]

\* JobItem.jsx 34-42: the merge of a successful tick
ItemMerge(prev, r) ==
    [prev EXCEPT !.status = r.status,
                 !.result_payload =
                     IF (r.status = "SUCCESS" \/ r.status = "FAILURE") /\ r.result # Null
                     THEN r.result ELSE @]

\* JobItem.jsx 44-49: the catch branch
ItemFail(prev) ==
    [prev EXCEPT !.status = "FAILURE", !.result_payload = ErrorPayload]

\* JobDetailPage.jsx 50-54: {...prevJob, ...fetchedJobData, result_payload: fetchedJobData.result}
\* (the spread also copies `result`, which equals result_payload and is not kept apart)
DetailMerge(prev, r) ==
    [prev EXCEPT !.job_id = r.job_id, !.status = r.status, !.result_payload = r.result]

\* every fetch in flight loses its subscription (dependency change) or its
\* component (unmount); the fetches themselves are not aborted
Orphan(fs, isGone) ==
    [i \in DOMAIN fs |-> [fs[i] EXCEPT !.cancelled = TRUE, !.gone = @ \/ isGone]]

RemoveAt(s, i) == SubSeq(s, 1, i - 1) \o SubSeq(s, i + 1, Len(s))

NewFetch(jid, tok, kind) ==
    [jid |-> jid, tok |-> tok, kind |-> kind, cancelled |-> FALSE, gone |-> FALSE,
     overtaken |-> FALSE]

\* fetch i settles: the fetches issued before it and still in flight have
\* been overtaken
Overtake(fs, i) ==
    [j \in DOMAIN fs |-> IF j < i THEN [fs[j] EXCEPT !.overtaken = TRUE] ELSE fs[j]]

\* the interval without its clearInterval
ClearInterval_Leak(t) == t

\* JobItem.jsx 55, JobDetailPage.jsx 76, Sidebar.jsx 42: clearInterval(intervalId)
ClearInterval(t) == NoTimer

\* JobItem.jsx 12-61: mount with the initialJob prop
MountItem(j0) ==
    /\ viewer = "item" /\ ~mounted /\ ~unmounted
    /\ mounted' = TRUE
    /\ job' = j0
    /\ jobId' = j0.job_id
    /\ timer' = ItemEffect(j0, authToken)
    /\ terminalApplied' = FALSE
    /\ staleApplied' = FALSE
    /\ pev' = PEvent("mount", NoFetch, NoResp, TRUE)
    /\ intervals' = Rerun(intervals, timer, timer')
    /\ UNCHANGED <<viewer, unmounted, authToken, error, inflight>>
    /\ UNCHANGED <<jobs, fetched>>
    /\ UNCHANGED <<authVars, uiVars>>

\* JobDetailPage.jsx 31-77: mount; the initial-load effect calls fetchJob()
MountDetail(jid) ==
    /\ viewer = "detail" /\ ~mounted /\ ~unmounted
    /\ Len(inflight) < MaxInflight
    /\ mounted' = TRUE
    /\ jobId' = jid
    /\ job' = NoJob
    /\ error' = Null
    /\ inflight' = Append(inflight, NewFetch(jid, authToken, "initial"))
    /\ timer' = DetailEffect(NoJob, jid, authToken)
    /\ terminalApplied' = FALSE
    /\ staleApplied' = FALSE
    /\ pev' = PEvent("mount", NewFetch(jid, authToken, "initial"), NoResp, TRUE)
    /\ intervals' = Rerun(intervals, timer, timer')
    /\ UNCHANGED <<viewer, unmounted, authToken>>
    /\ UNCHANGED <<jobs, fetched>>
    /\ UNCHANGED <<authVars, uiVars>>

\* effect cleanups at unmount: JobItem.jsx 54-56, JobDetailPage.jsx 76
DoUnmount ==
    /\ mounted
    /\ mounted' = FALSE
    /\ unmounted' = TRUE
    /\ timer' = ClearInterval(timer)
    /\ inflight' = Orphan(inflight, TRUE)
    /\ pev' = PEvent("unmount", NoFetch, NoResp, FALSE)
    /\ intervals' = Cleanup(intervals, timer)
    /\ UNCHANGED <<viewer, jobId, authToken, job, error, terminalApplied, staleApplied>>
    /\ UNCHANGED <<jobs, fetched>>

Unmount ==
    /\ DoUnmount
    /\ UNCHANGED <<authVars, uiVars>>

\* the session's token changes under a mounted viewer (a new credential):
\* JobItem.jsx 61 and JobDetailPage.jsx 59,65,77 list token as a dependency
DoTokenChange(tok) ==
    /\ viewer # "registry"
    /\ mounted /\ tok # authToken
    /\ viewer = "detail" => Len(inflight) < MaxInflight
    /\ authToken' = tok
    /\ timer' = IF viewer = "item" THEN ItemEffect(job, tok)
                ELSE DetailEffect(job, jobId, tok)
    /\ inflight' = IF viewer = "item" THEN Orphan(inflight, FALSE)
                   ELSE Append(Orphan(inflight, FALSE), NewFetch(jobId, tok, "initial"))
    /\ terminalApplied' = FALSE
    /\ staleApplied' = FALSE
    /\ pev' = PEvent("token", NoFetch, NoResp, FALSE)
    /\ intervals' = Rerun(intervals, timer, timer')
    /\ UNCHANGED <<viewer, mounted, unmounted, jobId, job, error>>
    /\ UNCHANGED <<jobs, fetched>>

TokenChange(tok) ==
    /\ DoTokenChange(tok)
    /\ UNCHANGED <<authVars, uiVars>>

\* JobDetailPage.jsx 32, 59-65: the route's job id changes on the mounted page;
\* the snapshot is not reset, fetchJob is re-created and called
RouteChange(jid) ==
    /\ viewer = "detail" /\ mounted /\ jid # jobId
    /\ Len(inflight) < MaxInflight
    /\ jobId' = jid
    /\ timer' = DetailEffect(job, jid, authToken)
    /\ inflight' = Append(Orphan(inflight, FALSE), NewFetch(jid, authToken, "initial"))
    /\ terminalApplied' = FALSE
    /\ staleApplied' = FALSE
    /\ pev' = PEvent("route", NoFetch, NoResp, FALSE)
    /\ intervals' = Rerun(intervals, timer, timer')
    /\ UNCHANGED <<viewer, mounted, unmounted, authToken, job, error>>
    /\ UNCHANGED <<jobs, fetched>>
    /\ UNCHANGED <<authVars, uiVars>>

\* the interval fires: JobItem.jsx 24-26 calls getJobStatus(job.job_id, token);
\* JobDetailPage.jsx 42-49, 73 calls fetchJob, which returns at once without
\* a token or a job id
Tick ==
    /\ viewer # "registry"
    /\ timer # NoTimer
    /\ Len(inflight) < MaxInflight
    /\ viewer = "detail" => (timer.tok # Null /\ timer.jid # Null)
    /\ inflight' = Append(inflight, NewFetch(timer.jid, timer.tok, "tick"))
    /\ pev' = PEvent("tick", NewFetch(timer.jid, timer.tok, "tick"), NoResp, FALSE)
    /\ UNCHANGED intervals
    /\ UNCHANGED <<viewer, mounted, unmounted, jobId, authToken, job, error, timer, terminalApplied, staleApplied>>
    /\ UNCHANGED <<jobs, fetched>>
    /\ UNCHANGED <<authVars, uiVars>>

\* the snapshot after fetch f resolved with response r; the state of a
\* component that was unmounted no longer exists, its setJob does nothing
Resolved(f, r) ==
    IF f.gone THEN job
    ELSE IF viewer = "item" THEN ItemMerge(job, r) ELSE DetailMerge(job, r)

\* the snapshot after fetch f rejected
Rejected(f) ==
    IF f.gone THEN job
    ELSE IF viewer = "item" THEN ItemFail(job) ELSE job

\* the polling effect as re-run by the commit of snapshot j
Effect(j) ==
    IF ~mounted THEN NoTimer
    ELSE IF viewer = "item" THEN ItemEffect(j, authToken)
    ELSE DetailEffect(j, jobId, authToken)

\* a status fetch resolves: JobItem.jsx 26-42, JobDetailPage.jsx 49-54
CompleteOk(i, r) ==
    /\ viewer # "registry"
    /\ i \in DOMAIN inflight
    /\ r \in Responses(inflight[i].jid)
    /\ inflight' = RemoveAt(Overtake(inflight, i), i)
    /\ job' = Resolved(inflight[i], r)
    /\ timer' = Effect(job')
    /\ terminalApplied' = (terminalApplied \/
                           (~inflight[i].cancelled /\ IsTerminal(r.status)))
    /\ staleApplied' = (staleApplied \/ (inflight[i].cancelled /\ ~inflight[i].gone))
    /\ pev' = PEvent("ok", inflight[i], r, job' # job)
    /\ intervals' = Rerun(intervals, timer, timer')
    /\ UNCHANGED <<viewer, mounted, unmounted, jobId, authToken, error>>
    /\ UNCHANGED <<jobs, fetched>>
    /\ UNCHANGED <<authVars, uiVars>>

\* a status fetch rejects: JobItem.jsx 44-49, JobDetailPage.jsx 55-58
CompleteErr(i) ==
    /\ viewer # "registry"
    /\ i \in DOMAIN inflight
    /\ inflight' = RemoveAt(Overtake(inflight, i), i)
    /\ job' = Rejected(inflight[i])
    /\ error' = IF viewer = "detail" /\ ~inflight[i].gone THEN "fetch failed" ELSE error
    /\ timer' = Effect(job')
    /\ staleApplied' = (staleApplied \/ (inflight[i].cancelled /\ ~inflight[i].gone))
    /\ pev' = PEvent("err", inflight[i], NoResp, job' # job)
    /\ intervals' = Rerun(intervals, timer, timer')
    /\ UNCHANGED <<viewer, mounted, unmounted, jobId, authToken, terminalApplied>>
    /\ UNCHANGED <<jobs, fetched>>
    /\ UNCHANGED <<authVars, uiVars>>

\* the cleanup run once more on a viewer that was torn down: clearInterval
\* on an interval that is already cleared
RepeatTeardown ==
    /\ unmounted
    /\ timer' = ClearInterval(timer)
    /\ inflight' = Orphan(inflight, TRUE)
    /\ pev' = PEvent("teardown", NoFetch, NoResp, timer' # timer \/ inflight' # inflight)
    /\ intervals' = Cleanup(intervals, timer)
    /\ UNCHANGED <<viewer, mounted, unmounted, jobId, authToken, job, error,
                   terminalApplied, staleApplied>>
    /\ UNCHANGED <<jobs, fetched>>
    /\ UNCHANGED <<authVars, uiVars>>

(***************************************************************************)
(* Job list synchronisation: Sidebar.jsx                                   *)
(***************************************************************************)
\* the jobs GET /jobs may list: job_id is the place of the job in the list
\* as fetched, created_at its creation time
ListEntries(i) == [job_id : {i}, status : Statuses, created_at : 1..MaxCreated]

RECURSIVE ListsOfLen(_)
ListsOfLen(n) ==
    IF n = 0 THEN {<<>>}
    ELSE {Append(l, e) : l \in ListsOfLen(n - 1), e \in ListEntries(n)}

FetchedLists == UNION {ListsOfLen(n) : n \in 0..MaxJobs}

\* the lists answered while the refresh loop is followed through its ticks:
\* nothing listed, or one job in any status
ShortLists == {l \in FetchedLists : Len(l) <= 1}

\* the comparator ordering by creation date alone
Compare_DateOnly(a, b) == b.created_at - a.created_at

\* Sidebar.jsx 20-26: the comparator given to sort
Compare(a, b) ==
    IF IsActive(a.status) /\ ~IsActive(b.status) THEN -1
    ELSE IF ~IsActive(a.status) /\ IsActive(b.status) THEN 1
    ELSE b.created_at - a.created_at

\* x put into the sorted list l behind every element that does not come
\* after it
RECURSIVE Insert(_, _)
Insert(x, l) ==
    IF l = <<>> THEN <<x>>
    ELSE IF Compare(l[Len(l)], x) > 0
         THEN Append(Insert(x, SubSeq(l, 1, Len(l) - 1)), l[Len(l)])
         ELSE Append(l, x)

\* Sidebar.jsx 20: Array.prototype.sort, a stable sort by the comparator
RECURSIVE Sort(_)
Sort(l) ==
    IF l = <<>> THEN <<>>
    ELSE Insert(l[Len(l)], Sort(SubSeq(l, 1, Len(l) - 1)))

\* the list refresh never scheduling its interval
RegistryEffect_Off(tok) == NoTimer

\* Sidebar.jsx 37-43: the polling effect, run at mount and when fetchJobs
\* (that is, the token) changes: one interval, whatever the list holds
RegistryEffect(tok) == [jid |-> Null, tok |-> tok]

\* Sidebar.jsx 15-18: fetchJobs returns at once without a token
FetchJobs(fs, tok, kind) ==
    IF tok = Null THEN fs ELSE Append(fs, NewFetch(Null, tok, kind))

\* Sidebar.jsx 9-43: mount; the effect calls fetchJobs and starts the interval
MountRegistry ==
    /\ viewer = "registry" /\ ~mounted /\ ~unmounted
    /\ Len(inflight) < MaxInflight
    /\ mounted' = TRUE
    /\ jobs' = <<>>
    /\ error' = Null
    /\ inflight' = FetchJobs(inflight, authToken, "initial")
    /\ timer' = RegistryEffect(authToken)
    /\ pev' = PEvent("mount", NewFetch(Null, authToken, "initial"), NoResp, TRUE)
    /\ intervals' = Rerun(intervals, timer, timer')
    /\ UNCHANGED <<viewer, unmounted, jobId, authToken, job, fetched,
                   terminalApplied, staleApplied>>
    /\ UNCHANGED <<authVars, uiVars>>

\* Sidebar.jsx 33, 43: a new token re-creates fetchJobs; the effect's cleanup
\* clears the interval and the effect runs again
DoRegistryTokenChange(tok) ==
    /\ viewer = "registry" /\ mounted /\ tok # authToken
    /\ Len(inflight) < MaxInflight
    /\ authToken' = tok
    /\ inflight' = FetchJobs(Orphan(inflight, FALSE), tok, "initial")
    /\ timer' = RegistryEffect(tok)
    /\ pev' = PEvent("token", NoFetch, NoResp, FALSE)
    /\ intervals' = Rerun(intervals, timer, timer')
    /\ UNCHANGED <<viewer, mounted, unmounted, jobId, job, error, jobs, fetched,
                   terminalApplied, staleApplied>>

RegistryTokenChange(tok) ==
    /\ DoRegistryTokenChange(tok)
    /\ UNCHANGED <<authVars, uiVars>>

\* Sidebar.jsx 39: the interval fires and calls fetchJobs
RegistryTick ==
    /\ viewer = "registry"
    /\ timer # NoTimer
    /\ Len(inflight) < MaxInflight
    /\ inflight' = FetchJobs(inflight, timer.tok, "tick")
    /\ pev' = PEvent("refresh", NewFetch(Null, timer.tok, "tick"), NoResp, FALSE)
    /\ UNCHANGED intervals
    /\ UNCHANGED <<viewer, mounted, unmounted, jobId, authToken, job, error, jobs,
                   fetched, timer, terminalApplied, staleApplied>>
    /\ UNCHANGED <<authVars, uiVars>>

\* a successful refresh leaving the error message in place
RefreshError_Sticky(ok, prev) == IF ok THEN prev ELSE "Could not load edits."

\* Sidebar.jsx 28 and 31: setError(null) after a successful refresh,
\* setError('Could not load edits.') in the catch
RefreshError(ok, prev) == IF ok THEN Null ELSE "Could not load edits."

\* Sidebar.jsx 18-28: getJobs resolved with list l; sort, setJobs, setError(null).
\* The state of an unmounted Sidebar no longer exists.
ListOk(i, l) ==
    /\ viewer = "registry"
    /\ i \in DOMAIN inflight
    /\ inflight' = RemoveAt(Overtake(inflight, i), i)
    /\ jobs' = IF inflight[i].gone THEN jobs ELSE Sort(l)
    /\ fetched' = IF inflight[i].gone THEN fetched ELSE l
    /\ error' = IF inflight[i].gone THEN error ELSE RefreshError(TRUE, error)
    /\ pev' = PEvent("list", inflight[i], NoResp, jobs' # jobs \/ error' # error)
    /\ UNCHANGED intervals
    /\ UNCHANGED <<viewer, mounted, unmounted, jobId, authToken, job, timer,
                   terminalApplied, staleApplied>>
    /\ UNCHANGED <<authVars, uiVars>>

\* Sidebar.jsx 29-32: getJobs rejected; only the error message is set
ListErr(i) ==
    /\ viewer = "registry"
    /\ i \in DOMAIN inflight
    /\ inflight' = RemoveAt(Overtake(inflight, i), i)
    /\ error' = IF inflight[i].gone THEN error ELSE RefreshError(FALSE, error)
    /\ pev' = PEvent("listerr", inflight[i], NoResp, error' # error)
    /\ UNCHANGED intervals
    /\ UNCHANGED <<viewer, mounted, unmounted, jobId, authToken, job, jobs, fetched,
                   timer, terminalApplied, staleApplied>>
    /\ UNCHANGED <<authVars, uiVars>>

\* the initialJob prop of a JobItem: an entry of the fetched job list
InitialJobs == [job_id : {"jA"}, status : Statuses, result_payload : {Null, "m1"}]

PollInit ==
    /\ viewer \in {"item", "detail", "registry"}
    /\ mounted = FALSE
    /\ unmounted = FALSE
    /\ jobId = Null
    /\ authToken = "t1"
    /\ job = NoJob
    /\ error = Null
    /\ jobs = <<>>
    /\ fetched = <<>>
    /\ timer = NoTimer
    /\ inflight = <<>>
    /\ terminalApplied = FALSE
    /\ staleApplied = FALSE
    /\ pev = PEvent("none", NoFetch, NoResp, FALSE)
    /\ intervals = 0

PollNext ==
    \/ \E j0 \in InitialJobs : MountItem(j0)
    \/ \E jid \in JobIds : MountDetail(jid)
    \/ Unmount
    \/ \E tok \in SessionTokens : TokenChange(tok)
    \/ \E jid \in JobIds : RouteChange(jid)
    \/ Tick
    \/ \E i \in DOMAIN inflight : \E r \in Responses(inflight[i].jid) : CompleteOk(i, r)
    \/ \E i \in DOMAIN inflight : CompleteErr(i)
    \/ RepeatTeardown
    \/ MountRegistry
    \/ \E tok \in SessionTokens : RegistryTokenChange(tok)
    \/ RegistryTick
    \/ \E i \in DOMAIN inflight : \E l \in ShortLists : ListOk(i, l)
    \/ \E i \in DOMAIN inflight : ListErr(i)


(***************************************************************************)
(* Session lifecycle: AuthProvider, App.js 65-214 (current revision) and   *)
(* context/AuthContext.js 15-111 (older revision)                          *)
(***************************************************************************)
\* identity assertions (raw JWT strings): two of subject A with different
\* expiries, one of subject B, and one that jwtDecode rejects
Decodable == {"a1", "a2", "b2"}
RawTokens == Decodable \cup {"bad"}

NoUser == [sub |-> Null, email |-> Null, exp |-> 0]

\* jwt-decode on a decodable assertion: the claims of its payload
jwtDecode(t) ==
    CASE t = "a1" -> [sub |-> "A", email |-> "a@x", exp |-> 1]
      [] t = "a2" -> [sub |-> "A", email |-> "a@x", exp |-> 2]
      [] t = "b2" -> [sub |-> "B", email |-> "b@x", exp |-> 2]

NotificationKinds == {"displayed", "notDisplayed", "skipped", "dismissed"}

\* Date.now(), in milliseconds
NowMs == clock * 500

\* threw: a decoding failure or provider exception happened in the handler;
\* uncaught: the exception left the handler
AEventThrown(op, arg, threw, uncaught) ==
    [op |-> op, arg |-> arg, tokenBefore |-> token, userBefore |-> user,
     loadingBefore |-> isLoading, threw |-> threw, uncaught |-> uncaught]

AEvent(op, arg) == AEventThrown(op, arg, FALSE, FALSE)

NoEvent == [op |-> "none", arg |-> Null, tokenBefore |-> Null, userBefore |-> NoUser,
            loadingBefore |-> TRUE, threw |-> FALSE, uncaught |-> FALSE]

NoBoot == [read |-> FALSE, tok |-> Null, now |-> 0, prompted |-> FALSE, threw |-> FALSE]

\* no reload happened yet
NoPrior == [reloaded |-> FALSE, tok |-> Null, loggedOut |-> FALSE]

\* the expiry test refusing a token in its last half second
TokenIsFresh_Strict(decoded, nowMs) == decoded.exp * 1000 > nowMs + 500

\* the expiry test with the boundary instant accepted
TokenIsFresh_Boundary(decoded, nowMs) == decoded.exp * 1000 >= nowMs

\* App.js 108, AuthContext.js 54: decodedToken.exp * 1000 > Date.now()
TokenIsFresh(decoded, nowMs) == decoded.exp * 1000 > nowMs

\* the callback keeping the user of an earlier credential
CredentialUser_Kept(t, prevUser) == IF prevUser = NoUser THEN jwtDecode(t) ELSE prevUser

\* App.js 83-86, AuthContext.js 33-36: setUser(jwtDecode(idToken))
CredentialUser(t, prevUser) == jwtDecode(t)

\* the callback without the write to localStorage
CredentialStorage_NotPersisted(t, prevStorage) == prevStorage

\* App.js 89, AuthContext.js 39: localStorage.setItem('googleIdToken', idToken)
CredentialStorage(t, prevStorage) == t

\* App.js 123-128: the prompt's notification callback
IsFailure(kind) == kind = "notDisplayed" \/ kind = "skipped" \/ kind = "dismissed"
\* the notification callback ending the loading state at any moment of the flow
NotifyLoading_AnyMoment(kind, loading) == FALSE

\* the notification callback never ending the loading state
NotifyLoading_Never(kind, loading) == loading

NotifyLoading(kind, loading) == IF IsFailure(kind) THEN FALSE ELSE loading

\* App.js 96-142: initializeGoogleSignIn. initThrows / promptThrows: the
\* provider raises inside initialize / prompt.
InitializeGoogleSignIn(initThrows, promptThrows) ==
    IF google = FALSE \/ initThrows
    THEN \* 99: TypeError or provider exception; 136-141: catch
         /\ storage' = Null
         /\ isLoading' = FALSE
         /\ UNCHANGED <<initialized, promptPending, user, token, boot>>
    ELSE /\ initialized' = TRUE
         /\ IF storage = Null
            THEN \* 132-135
                 /\ isLoading' = FALSE
                 /\ boot' = [NoBoot EXCEPT !.read = TRUE, !.now = NowMs]
                 /\ UNCHANGED <<promptPending, user, token, storage>>
            ELSE IF storage \notin Decodable
            THEN \* 106 throws; 136-141
                 /\ storage' = Null
                 /\ isLoading' = FALSE
                 /\ boot' = [NoBoot EXCEPT !.read = TRUE, !.tok = storage, !.now = NowMs]
                 /\ UNCHANGED <<promptPending, user, token>>
            ELSE IF TokenIsFresh(jwtDecode(storage), NowMs)
            THEN \* 109-112
                 /\ user' = jwtDecode(storage)
                 /\ token' = storage
                 /\ isLoading' = FALSE
                 /\ boot' = [NoBoot EXCEPT !.read = TRUE, !.tok = storage, !.now = NowMs]
                 /\ UNCHANGED <<promptPending, storage>>
            ELSE \* 114-130; 136-141 when prompt throws
                 /\ storage' = Null
                 /\ promptPending' = ~promptThrows
                 /\ isLoading' = IF promptThrows THEN FALSE ELSE isLoading
                 /\ boot' = [read |-> TRUE, tok |-> storage, now |-> NowMs,
                             prompted |-> TRUE, threw |-> promptThrows]
                 /\ UNCHANGED <<user, token>>

\* App.js 97-141: whether the try block of initializeGoogleSignIn raises, so
\* that its catch runs (a missing window.google is a TypeError at line 99)
InitFailure(initThrows, promptThrows) ==
    \/ ~google
    \/ initThrows
    \/ storage # Null /\ storage \notin Decodable
    \/ storage \in Decodable /\ ~TokenIsFresh(jwtDecode(storage), NowMs) /\ promptThrows

\* App.js 71-77: the mount effect without a client id
MountNoClientId ==
    /\ phase = "boot" /\ ~clientId
    /\ phase' = "ready"
    /\ isLoading' = FALSE
    /\ aev' = AEvent("mount", Null)
    /\ UNCHANGED <<rev, clientId, google, loaded, initialized, promptPending, user,
                   token, storage, clock, escaped, credDelivered, boot,
                   reloads, loggedOut, prior>>
    /\ UNCHANGED <<pollVars, uiVars>>

\* App.js 145-147: the provider's script is already there
DoMountInit(initThrows, promptThrows) ==
    /\ rev = "new" /\ phase = "boot" /\ clientId /\ google
    /\ phase' = "ready"
    /\ InitializeGoogleSignIn(initThrows, promptThrows)
    /\ aev' = AEventThrown("init", storage, InitFailure(initThrows, promptThrows), FALSE)
    /\ UNCHANGED <<rev, clientId, google, loaded, clock, escaped, credDelivered,
                   reloads, loggedOut, prior>>

MountInit(initThrows, promptThrows) ==
    /\ DoMountInit(initThrows, promptThrows)
    /\ UNCHANGED <<pollVars, uiVars>>

\* App.js 148-158: wait for the window's load event
MountWait ==
    /\ rev = "new" /\ phase = "boot" /\ clientId /\ ~google
    /\ phase' = "waiting"
    /\ aev' = AEvent("mount", Null)
    /\ UNCHANGED <<rev, clientId, google, loaded, initialized, promptPending, user,
                   token, isLoading, storage, clock, escaped, credDelivered, boot,
                   reloads, loggedOut, prior>>
    /\ UNCHANGED <<pollVars, uiVars>>

\* App.js 152: the load listener runs initializeGoogleSignIn
WindowLoadInit(initThrows, promptThrows) ==
    /\ ~loaded /\ phase = "waiting"
    /\ loaded' = TRUE
    /\ phase' = "ready"
    /\ InitializeGoogleSignIn(initThrows, promptThrows)
    /\ aev' = AEventThrown("init", storage, InitFailure(initThrows, promptThrows), FALSE)
    /\ UNCHANGED <<rev, clientId, google, clock, escaped, credDelivered,
                   reloads, loggedOut, prior>>
    /\ UNCHANGED <<pollVars, uiVars>>

\* the load event fires with no listener registered
WindowLoad ==
    /\ ~loaded /\ phase # "waiting"
    /\ loaded' = TRUE
    /\ UNCHANGED <<rev, clientId, google, phase, initialized, promptPending, user,
                   token, isLoading, storage, clock, escaped, credDelivered, boot, aev,
                   reloads, loggedOut, prior>>
    /\ UNCHANGED <<pollVars, uiVars>>

\* the provider's script runs; it does so before the load event or never
ScriptLoad ==
    /\ ~google /\ ~loaded
    /\ google' = TRUE
    /\ UNCHANGED <<rev, clientId, loaded, phase, initialized, promptPending, user,
                   token, isLoading, storage, clock, escaped, credDelivered, boot, aev,
                   reloads, loggedOut, prior>>
    /\ UNCHANGED <<pollVars, uiVars>>

\* AuthContext.js 21-68: the older revision's mount effect
DoOldMount(initThrows) ==
    /\ rev = "old" /\ phase = "boot" /\ clientId
    /\ phase' = "ready"
    /\ aev' = AEventThrown("init", storage,
                           ~google \/ initThrows
                               \/ (storage # Null /\ storage \notin Decodable),
                           ~google \/ initThrows)
    /\ IF ~google \/ initThrows
       THEN \* 43: the exception leaves the effect
            /\ escaped' = TRUE
            /\ UNCHANGED <<initialized, user, token, isLoading, storage, boot>>
       ELSE /\ initialized' = TRUE
            /\ isLoading' = FALSE
            /\ boot' = [NoBoot EXCEPT !.read = TRUE, !.tok = storage, !.now = NowMs]
            /\ escaped' = escaped
            /\ IF storage = Null
               THEN UNCHANGED <<user, token, storage>>
               ELSE IF storage \notin Decodable
               THEN storage' = Null /\ UNCHANGED <<user, token>>
               ELSE IF TokenIsFresh(jwtDecode(storage), NowMs)
               THEN user' = jwtDecode(storage) /\ token' = storage /\ storage' = storage
               ELSE storage' = Null /\ UNCHANGED <<user, token>>
    /\ UNCHANGED <<rev, clientId, google, loaded, promptPending, clock, credDelivered,
                   reloads, loggedOut, prior>>

OldMount(initThrows) ==
    /\ DoOldMount(initThrows)
    /\ UNCHANGED <<pollVars, uiVars>>

\* the credential callback leaving isLoading as it was
CredentialLoading_Kept(loading) == loading

\* App.js 88: setIsLoading(false) in the callback; AuthContext.js 30-40 sets
\* no isLoading
CredentialLoading(loading) == IF rev = "new" THEN FALSE ELSE loading

\* App.js 80-92 (AuthContext.js 30-40 sets no isLoading): the provider hands
\* an assertion to the registered callback. The provider issues assertions
\* that are not yet expired.
DoHandleCredentialResponse(t) ==
    /\ initialized
    /\ t \in Decodable => jwtDecode(t).exp * 1000 > NowMs
    /\ aev' = AEventThrown("credential", t, t \notin Decodable, t \notin Decodable)
    /\ IF t \notin Decodable
       THEN \* 83: jwtDecode throws inside the callback
            /\ escaped' = TRUE
            /\ UNCHANGED <<user, token, storage, isLoading, credDelivered, loggedOut>>
       ELSE /\ user' = CredentialUser(t, user)
            /\ token' = t
            /\ storage' = CredentialStorage(t, storage)
            /\ isLoading' = CredentialLoading(isLoading)
            /\ credDelivered' = TRUE
            /\ loggedOut' = FALSE
            /\ escaped' = escaped
    /\ UNCHANGED <<rev, clientId, google, loaded, phase, initialized, promptPending,
                   clock, boot, reloads, prior>>

HandleCredentialResponse(t) ==
    /\ DoHandleCredentialResponse(t)
    /\ UNCHANGED <<pollVars, uiVars>>

\* App.js 121-129: a notification of the prompt's flow
PromptNotification(kind) ==
    /\ promptPending
    /\ isLoading' = NotifyLoading(kind, isLoading)
    /\ promptPending' = (kind = "displayed")
    /\ aev' = AEvent("notify", kind)
    /\ UNCHANGED <<rev, clientId, google, loaded, phase, initialized, user, token,
                   storage, clock, escaped, credDelivered, boot,
                   reloads, loggedOut, prior>>
    /\ UNCHANGED <<pollVars, uiVars>>

\* logout leaving the stored token in place
LogoutStorage_Kept(prevStorage) == prevStorage

\* App.js 189, AuthContext.js 86: localStorage.removeItem('googleIdToken')
LogoutStorage(prevStorage) == Null

\* App.js 191-195, AuthContext.js 88-92: whether the revoke call raises out of
\* logout; neither revision wraps it in a try
RevokeEscapes(revokeThrows) ==
    IF rev = "new" THEN token # Null /\ google /\ revokeThrows
    ELSE token # Null /\ (~google \/ revokeThrows)

\* App.js 186-197, AuthContext.js 83-94: logout, reachable from the pages
\* shown to a logged-in user. revokeThrows: the provider raises inside revoke.
DoLogout(revokeThrows) ==
    /\ user # NoUser
    /\ user' = NoUser
    /\ token' = Null
    /\ storage' = LogoutStorage(storage)
    /\ escaped' = (escaped \/ RevokeEscapes(revokeThrows))
    /\ loggedOut' = TRUE
    /\ aev' = AEventThrown("logout", Null, RevokeEscapes(revokeThrows),
                           RevokeEscapes(revokeThrows))
    /\ UNCHANGED <<rev, clientId, google, loaded, phase, initialized, promptPending,
                   isLoading, clock, credDelivered, boot, reloads, prior>>

Logout(revokeThrows) ==
    /\ DoLogout(revokeThrows)
    /\ UNCHANGED <<pollVars, uiVars>>

\* time passes
ClockTick ==
    /\ clock < MaxClock
    /\ clock' = clock + 1
    /\ UNCHANGED <<rev, clientId, google, loaded, phase, initialized, promptPending,
                   user, token, isLoading, storage, escaped, credDelivered, boot, aev,
                   reloads, loggedOut, prior>>
    /\ UNCHANGED <<pollVars, uiVars>>

\* the page is reloaded: main.jsx 12-20 runs again and AuthProvider starts from
\* its useState defaults (App.js 66-68); localStorage and the clock go on
Reload ==
    /\ reloads < MaxReloads
    /\ phase # "boot"
    /\ reloads' = reloads + 1
    /\ prior' = [reloaded |-> TRUE,
                 tok |-> IF credDelivered THEN token ELSE Null,
                 loggedOut |-> loggedOut]
    /\ google' \in BOOLEAN
    /\ loaded' = FALSE
    /\ phase' = "boot"
    /\ initialized' = FALSE
    /\ promptPending' = FALSE
    /\ user' = NoUser
    /\ token' = Null
    /\ isLoading' = TRUE
    /\ escaped' = FALSE
    /\ credDelivered' = FALSE
    /\ loggedOut' = FALSE
    /\ boot' = NoBoot
    /\ aev' = [NoEvent EXCEPT !.op = "reload"]
    /\ UNCHANGED <<rev, clientId, storage, clock>>
    /\ UNCHANGED <<pollVars, uiVars>>

AuthInit ==
    /\ rev \in {"new", "old"}
    /\ clientId \in BOOLEAN
    /\ google \in BOOLEAN
    /\ loaded = FALSE
    /\ phase = "boot"
    /\ initialized = FALSE
    /\ promptPending = FALSE
    /\ user = NoUser
    /\ token = Null
    /\ isLoading = TRUE
    /\ storage \in RawTokens \cup {Null}
    /\ clock = 0
    /\ escaped = FALSE
    /\ credDelivered = FALSE
    /\ boot = NoBoot
    /\ aev = NoEvent
    /\ reloads = 0
    /\ loggedOut = FALSE
    /\ prior = NoPrior

AuthNext ==
    \/ MountNoClientId
    \/ \E it, pt \in BOOLEAN : MountInit(it, pt)
    \/ MountWait
    \/ \E it, pt \in BOOLEAN : WindowLoadInit(it, pt)
    \/ WindowLoad
    \/ ScriptLoad
    \/ \E it \in BOOLEAN : OldMount(it)
    \/ \E t \in RawTokens : HandleCredentialResponse(t)
    \/ \E k \in NotificationKinds : PromptNotification(k)
    \/ \E rt \in BOOLEAN : Logout(rt)
    \/ ClockTick
    \/ Reload

(***************************************************************************)
(* Upload collector: CreateJobForm.jsx 34-44 and 137-156 (the older        *)
(* CreateJobForm.js, App.jsx 149-160 and 257-276, has the same code).      *)
(* An entry is known by its place: the path <<i>> is the i-th item of the  *)
(* drop, Append(p, i) the i-th entry a read of the directory p delivered.  *)
(* The path <<>> stands for the drop itself, the Promise.all of handleDrop.*)
(* `nodes` maps the place of every entry met so far to what became of it.   *)
(***************************************************************************)
\* the File object of the entry at p; its base name is its place in its directory
FileAt(p) == [path |-> p, name |-> p[Len(p)]]

\* what webkitGetAsEntry gives for an item: null, a file entry, a directory entry
ItemKinds == {"null", "file", "dir"}

Drops == UNION {[1..n -> ItemKinds] : n \in 1..MaxItems}

\* what a directory at p may hold in the batch a read delivers
EntryKinds(p) == IF Len(p) < MaxDepth THEN {"file", "dir"} ELSE {"file"}

Batches(p) == UNION {[1..n -> EntryKinds(p)] : n \in 0..MaxBatch}

\* getFilesFromEntry, 137-156: the call on an entry of kind k. A null entry
\* returns [] at once; a file entry calls entry.file, a directory entry calls
\* createReader().readEntries, and the promise waits for the callback.
Called(k) == [kind |-> k, st |-> IF k = "null" THEN "done" ELSE "pending", n |-> 0, more |-> 0]

RECURSIVE Settled(_, _)
\* the promise getFilesFromEntry returned for p is resolved: Promise.all
\* (149, and 39-41 for the drop) resolves when every element has
Settled(ns, p) ==
    /\ ns[p].st = "done"
    /\ \A i \in 1..ns[p].n : Settled(ns, Append(p, i))

RECURSIVE Value(_, _), ValueFrom(_, _, _)
\* the value the promise of p resolves with: [file] for a file (141), and
\* for a directory the values of its entries, which Promise.all holds at the
\* index of each entry, flattened (150; 42 for the drop)
Value(ns, p) ==
    IF ns[p].kind = "file" THEN <<FileAt(p)>> ELSE ValueFrom(ns, p, 1)

ValueFrom(ns, p, i) ==
    IF i > ns[p].n THEN <<>>
    ELSE Value(ns, Append(p, i)) \o ValueFrom(ns, p, i + 1)

Pending(ns) == \E p \in DOMAIN ns : ns[p].st = "pending"

Failed(ns) == \E p \in DOMAIN ns : ns[p].st = "failed"

Failures(ns) == Cardinality({p \in DOMAIN ns : ns[p].st = "failed"})

\* handleDrop 42, handleFileSelect 49: the updater given to setFiles,
\* prevFiles => [...prevFiles, ...new], applied to the list as it stands
Appended(prev, new) == prev \o new

\* handleDrop 39-42: the await ends when the promise of the drop resolves,
\* and setFiles appends the flattened files
Settle(ns) ==
    IF Settled(ns, <<>>)
    THEN drop' = "done" /\ files' = Appended(files, Value(ns, <<>>))
    ELSE drop' = "collecting" /\ files' = files

\* handleDrop 34-44: getFilesFromEntry is called on the entry of every item
HandleDrop(kinds) ==
    /\ drop = "idle"
    /\ nodes' = [q \in {<<>>} \cup {<<i>> : i \in 1..Len(kinds)} |->
                    IF q = <<>> THEN [kind |-> "drop", st |-> "done", n |-> Len(kinds), more |-> 0]
                    ELSE Called(kinds[q[1]])]
    /\ Settle(nodes')
    /\ UNCHANGED <<others, offered>>
    /\ UNCHANGED <<pollVars, authVars, buttonVars, formVars>>

\* 140-142: entry.file calls back with the File
FileRead(p) ==
    /\ nodes[p].kind = "file" /\ nodes[p].st = "pending"
    /\ nodes' = [nodes EXCEPT ![p].st = "done"]
    /\ Settle(nodes')
    /\ UNCHANGED <<others, offered>>
    /\ UNCHANGED <<pollVars, authVars, buttonVars, formVars>>

\* 140-142: entry.file fails. It was given no error callback: nothing is
\* called and the promise stays pending.
FileReadFails(p) ==
    /\ Failures(nodes) < MaxFailures
    /\ nodes[p].kind = "file" /\ nodes[p].st = "pending"
    /\ nodes' = [nodes EXCEPT ![p].st = "failed"]
    /\ UNCHANGED <<drop, files, others, offered>>
    /\ UNCHANGED <<pollVars, authVars, buttonVars, formVars>>

\* 145-152: the one readEntries call of the directory p calls back with a
\* batch of entries; getFilesFromEntry is called on each. The directory
\* holds `more` further files, which later reads of the reader would deliver.
ReadEntries(p, batch, more) ==
    /\ nodes[p].kind = "dir" /\ nodes[p].st = "pending"
    /\ Len(batch) = 0 => more = 0
    /\ nodes' = [q \in DOMAIN nodes \cup {Append(p, i) : i \in 1..Len(batch)} |->
                    IF q = p THEN [kind |-> "dir", st |-> "done", n |-> Len(batch), more |-> more]
                    ELSE IF q \in DOMAIN nodes THEN nodes[q]
                    ELSE Called(batch[q[Len(q)]])]
    /\ Settle(nodes')
    /\ UNCHANGED <<others, offered>>
    /\ UNCHANGED <<pollVars, authVars, buttonVars, formVars>>

\* 145-152: readEntries fails. It was given no error callback either.
ReadEntriesFails(p) ==
    /\ Failures(nodes) < MaxFailures
    /\ nodes[p].kind = "dir" /\ nodes[p].st = "pending"
    /\ nodes' = [nodes EXCEPT ![p].st = "failed"]
    /\ UNCHANGED <<drop, files, others, offered>>
    /\ UNCHANGED <<pollVars, authVars, buttonVars, formVars>>

\* the files of a further drop, n of them
OtherFiles(n) == [k \in 1..n |-> [path |-> <<-1, k>>, name |-> k]]

\* handleDrop 34-41 for a further drop, up to its await: the collection
\* will resolve with n files
HandleOtherDrop(n) ==
    /\ Len(others) < MaxOthers
    /\ Len(offered) + n <= MaxOffered
    /\ others' = Append(others, OtherFiles(n))
    /\ offered' = offered \o OtherFiles(n)
    /\ UNCHANGED <<drop, nodes, files>>
    /\ UNCHANGED <<pollVars, authVars, buttonVars, formVars>>

\* handleDrop 42 for a further drop: its await ends and setFiles appends
OtherDropSettles(i) ==
    /\ i \in DOMAIN others
    /\ files' = Appended(files, others[i])
    /\ others' = SubSeq(others, 1, i - 1) \o SubSeq(others, i + 1, Len(others))
    /\ UNCHANGED <<drop, nodes, offered>>
    /\ UNCHANGED <<pollVars, authVars, buttonVars, formVars>>

DropInit ==
    /\ drop = "idle"
    /\ nodes = <<>>
    /\ files = <<>>
    /\ others = <<>>
    /\ offered = <<>>

DropNext ==
    \/ \E kinds \in Drops : HandleDrop(kinds)
    \/ \E p \in DOMAIN nodes : FileRead(p)
    \/ \E p \in DOMAIN nodes : FileReadFails(p)
    \/ \E p \in DOMAIN nodes : \E batch \in Batches(p) : \E more \in 0..MaxMore : ReadEntries(p, batch, more)
    \/ \E p \in DOMAIN nodes : ReadEntriesFails(p)

(***************************************************************************)
(* The sign-in button: renderLoginButton, App.js 163-183 (older revision:  *)
(* AuthContext.js 71-80)                                                   *)
(***************************************************************************)
RetryDelayMs == 500

BEvent(op, available, r, timers) ==
    [op |-> op, at |-> NowMs, available |-> available, rendered |-> r.rendered,
     reported |-> r.reported, timers |-> timers]

NoAttempt == [rendered |-> FALSE, reported |-> FALSE, again |-> FALSE]

NoBEvent == [op |-> "none", at |-> 0, available |-> FALSE, rendered |-> FALSE,
             reported |-> FALSE, timers |-> 0]

\* a variant of attemptRender that sets a further timer when the provider is missing
AttemptRender_Again(available) ==
    [rendered |-> available, reported |-> ~available, again |-> ~available]

\* App.js 166-175 (AuthContext.js 72-79): the button is rendered when the
\* provider is there, its absence is reported otherwise; nothing is scheduled
AttemptRender(available) ==
    [rendered |-> available, reported |-> ~available, again |-> FALSE]

\* what one run of attemptRender leaves in the timer list
After(ts, r) == IF r.again THEN Append(ts, NowMs + RetryDelayMs) ELSE ts

\* App.js 163-183: the call. With window.google it attempts at once,
\* without it sets one timer for attemptRender. The older revision
\* (AuthContext.js 71-80) attempts at once in both cases.
RenderLoginButton ==
    /\ bcalls < MaxCalls
    /\ bcalls' = bcalls + 1
    /\ IF rev = "new" /\ ~google
       THEN /\ retries' = Append(retries, NowMs + RetryDelayMs)
            /\ bev' = BEvent("call", google, NoAttempt, 1)
       ELSE /\ retries' = After(retries, AttemptRender(google))
            /\ bev' = BEvent("call", google, AttemptRender(google),
                             Len(retries') - Len(retries))
    /\ scheduled' = scheduled + (Len(retries') - Len(retries))
    /\ UNCHANGED <<pollVars, authVars, dropVars, formVars>>

\* App.js 181: the timer fires, not before it is due, and runs attemptRender
RetryFires(i) ==
    /\ NowMs >= retries[i]
    /\ retries' = After(RemoveAt(retries, i), AttemptRender(google))
    /\ bev' = BEvent("retry", google, AttemptRender(google),
                     Len(retries') - (Len(retries) - 1))
    /\ scheduled' = scheduled + (Len(retries') - (Len(retries) - 1))
    /\ UNCHANGED bcalls
    /\ UNCHANGED <<pollVars, authVars, dropVars, formVars>>

ButtonInit ==
    /\ retries = <<>> /\ bcalls = 0 /\ scheduled = 0 /\ bev = NoBEvent

\* the page before the provider component has booted, under either revision,
\* the provider's script loaded or not
ButtonAuth ==
    /\ rev \in {"new", "old"} /\ clientId = TRUE /\ google \in BOOLEAN /\ loaded = FALSE
    /\ phase = "boot" /\ initialized = FALSE /\ promptPending = FALSE
    /\ user = NoUser /\ token = Null /\ isLoading = TRUE /\ storage = Null
    /\ clock = 0 /\ escaped = FALSE /\ credDelivered = FALSE /\ boot = NoBoot
    /\ aev = NoEvent /\ reloads = 0 /\ loggedOut = FALSE /\ prior = NoPrior

ButtonNext ==
    \/ RenderLoginButton
    \/ \E i \in DOMAIN retries : RetryFires(i)
    \/ ScriptLoad
    \/ ClockTick

(***************************************************************************)
(* The transport and the create-job form: api.js 20-50 and 88-113,         *)
(* CreateJobForm.jsx 11-76 and 119-131                                     *)
(***************************************************************************)
ApiBaseUrl == "https://api"

HttpStatuses == {200, 204, 401, 500}

\* the body of a response: not JSON, an error object with a detail, an
\* object without one, the JSON of a created job
Bodies == {[json |-> FALSE, detail |-> Null, job_id |-> Null],
           [json |-> TRUE, detail |-> "quota exceeded", job_id |-> Null],
           [json |-> TRUE, detail |-> Null, job_id |-> Null],
           [json |-> TRUE, detail |-> Null, job_id |-> "jA"]}

\* what fetch() does with a request: it rejects (no connection, CORS), or
\* it resolves with a response
Outcomes == {[kind |-> "network", status |-> 0, body |-> b] : b \in {CHOOSE b \in Bodies : ~b.json}}
            \cup [kind : {"response"}, status : HttpStatuses, body : Bodies]

NoBody == [json |-> FALSE, detail |-> Null, job_id |-> Null]

\* the property `status` of an error object that was given none
NoStatus == 0

\* an error object: its message, and the properties status and url where set
ApiError(message, status, url) == [message |-> message, status |-> status, url |-> url]

NoError == ApiError(Null, NoStatus, Null)

Thrown(e) == [failed |-> TRUE, value |-> NoBody, isNull |-> FALSE, error |-> e]

Returned(v, isNull) == [failed |-> FALSE, value |-> v, isNull |-> isNull, error |-> NoError]

IsOk(status) == status >= 200 /\ status <= 299

\* api.js 29: response.json().catch(() => ({ detail: "An unknown error occurred." }))
ErrorData(body) ==
    IF body.json THEN body
    ELSE [json |-> TRUE, detail |-> "An unknown error occurred.", job_id |-> Null]

\* api.js 30
ErrorMessage(o) ==
    IF ErrorData(o.body).detail # Null THEN ErrorData(o.body).detail
    ELSE "HTTP error! status: " \o ToString(o.status)

\* api.js 20-50: apiFetch on the outcome o of fetch(url, options). A
\* rejection of fetch is caught, logged and thrown again as it is (45-49);
\* a response that is not ok throws Error(message) with the property status
\* (27-35); 204 returns null (38-40); otherwise response.json() (43), which
\* rejects on a body that is no JSON.
ApiFetch(url, o) ==
    IF o.kind = "network" THEN Thrown(ApiError("Failed to fetch", NoStatus, Null))
    ELSE IF ~IsOk(o.status) THEN Thrown(ApiError(ErrorMessage(o), o.status, Null))
    ELSE IF o.status = 204 THEN Returned(NoBody, TRUE)
    ELSE IF o.body.json THEN Returned(o.body, FALSE)
    ELSE Thrown(ApiError("Unexpected token", NoStatus, Null))

NoRequest == [url |-> Null, method |-> Null, tok |-> Null, nfiles |-> 0, caller |-> Null,
              wasSubmitting |-> FALSE]

\* the `files` argument of createJob: missing, or an array
FileArgs(l) == {[present |-> FALSE, list |-> <<>>], [present |-> TRUE, list |-> <<>>],
                [present |-> TRUE, list |-> l]}

\* a variant of createJob that sends whatever it is given
CreateJob_NoGuard(p, arg, tok, caller, sub) ==
    [rejected |-> FALSE, message |-> Null,
     request |-> [url |-> ApiBaseUrl \o "/jobs", method |-> "POST", tok |-> tok,
                  nfiles |-> Len(arg.list), caller |-> caller, wasSubmitting |-> sub]]

\* api.js 88-113: createJob. With files it calls apiFetch('/jobs', POST)
\* with the bearer token; without, it returns a rejected promise (92-101).
CreateJob(p, arg, tok, caller, sub) ==
    IF arg.present /\ Len(arg.list) > 0
    THEN [rejected |-> FALSE, message |-> Null,
          request |-> [url |-> ApiBaseUrl \o "/jobs", method |-> "POST", tok |-> tok,
                       nfiles |-> Len(arg.list), caller |-> caller, wasSubmitting |-> sub]]
    ELSE [rejected |-> TRUE, message |-> "At least one file must be provided to start a job.",
          request |-> NoRequest]

Prompts == {"", " ", "make a reel"}

\* String.prototype.trim on the prompts of the model
Trim(p) == IF p = " " THEN "" ELSE p

\* a variant of the submit guard that looks at the prompt only
FormInvalid_PromptOnly(p, fs) == Trim(p) = ""

\* CreateJobForm.jsx 56: !prompt.trim() || files.length === 0
FormInvalid(p, fs) == Trim(p) = "" \/ Len(fs) = 0

\* the submit button disabled only for want of files
ButtonDisabled_FilesOnly == Len(files) = 0

\* CreateJobForm.jsx 127: the submit button's disabled attribute
ButtonDisabled == isSubmitting \/ Len(files) = 0

NoOutcome == [kind |-> "none", status |-> 0, body |-> NoBody]

\* a call of handleSubmit or createJob: what it was given and what it called
FEvent(op, click, p, n, created, sent) ==
    [op |-> op, click |-> click, prompt |-> p, nfiles |-> n, createCalled |-> created,
     transportCalled |-> sent, url |-> Null, outcome |-> NoOutcome,
     result |-> Returned(NoBody, TRUE)]

\* a call of apiFetch that settled: its URL, what fetch did, what apiFetch made of it
TEvent(url, o, r) ==
    [op |-> "settled", click |-> FALSE, prompt |-> "", nfiles |-> 0, createCalled |-> FALSE,
     transportCalled |-> FALSE, url |-> url, outcome |-> o, result |-> r]

\* an edit of the form's fields
Edit(op) == FEvent(op, FALSE, "", 0, FALSE, FALSE)

NoFEvent == Edit("none")

\* MainPage renders the form (part_002), with the useState defaults of 11-15
MountForm ==
    /\ form = "none"
    /\ form' = "shown"
    /\ fev' = Edit("mount")
    /\ UNCHANGED <<prompt, isSubmitting, formError, requests, navigated>>
    /\ UNCHANGED <<pollVars, authVars, dropVars, buttonVars>>

\* CreateJobForm.jsx 85: onChange of the textarea
SetPrompt(p) ==
    /\ form = "shown" /\ p # prompt
    /\ prompt' = p
    /\ fev' = Edit("prompt")
    /\ UNCHANGED <<form, isSubmitting, formError, requests, navigated>>
    /\ UNCHANGED <<pollVars, authVars, dropVars, buttonVars>>

\* CreateJobForm.jsx 47-50: handleFileSelect appends the n selected files
HandleFileSelect(n) ==
    /\ form = "shown" /\ Len(files) + n <= MaxFiles
    /\ files' = Appended(files, [k \in 1..n |-> [path |-> <<0, k>>, name |-> k]])
    /\ offered' = offered \o [k \in 1..n |-> [path |-> <<0, k>>, name |-> k]]
    /\ fev' = Edit("select")
    /\ UNCHANGED <<drop, nodes, others>>
    /\ UNCHANGED <<form, prompt, isSubmitting, formError, requests, navigated>>
    /\ UNCHANGED <<pollVars, authVars, buttonVars>>

\* CreateJobForm.jsx 119-121: Clear All, shown when there are files
ClearAll ==
    /\ form = "shown" /\ Len(files) > 0
    /\ files' = <<>>
    /\ offered' = <<>>
    /\ fev' = Edit("clear")
    /\ UNCHANGED <<drop, nodes, others>>
    /\ UNCHANGED <<form, prompt, isSubmitting, formError, requests, navigated>>
    /\ UNCHANGED <<pollVars, authVars, buttonVars>>

\* CreateJobForm.jsx 53-66: handleSubmit up to the await. `click`: the
\* submit comes from the submit button, which is enabled (127) and whose
\* form passes the textarea's `required` (88); otherwise a submit event
\* reaches the form without the button (form.requestSubmit, dispatchEvent).
HandleSubmit(click) ==
    /\ form = "shown"
    /\ click => (~ButtonDisabled /\ prompt # "")
    /\ Len(requests) < MaxRequests
    /\ IF FormInvalid(prompt, files)
       THEN /\ formError' = "Please provide a prompt and at least one file."
            /\ fev' = FEvent("submit", click, prompt, Len(files), FALSE, FALSE)
            /\ UNCHANGED <<isSubmitting, requests>>
       ELSE LET c == CreateJob(prompt, [present |-> TRUE, list |-> files], authToken,
                               "form", isSubmitting)
            IN  /\ fev' = FEvent("submit", click, prompt, Len(files), TRUE, ~c.rejected)
                /\ IF c.rejected
                   THEN \* 70-74: the rejection is caught; finally sets the flag
                        \* to the value the handler closed over
                        /\ formError' = c.message
                        /\ isSubmitting' = isSubmitting
                        /\ UNCHANGED requests
                   ELSE /\ formError' = Null
                        /\ isSubmitting' = TRUE
                        /\ requests' = Append(requests, c.request)
    /\ UNCHANGED <<form, prompt, navigated>>
    /\ UNCHANGED <<pollVars, authVars, dropVars, buttonVars>>

\* api.js 88: createJob called by another caller than the form, with any
\* `files` argument
CallCreateJob(arg) ==
    /\ Len(requests) < MaxRequests
    /\ LET c == CreateJob("make a reel", arg, authToken, "other", FALSE)
       IN  /\ fev' = FEvent(IF arg.present THEN "create" ELSE "createMissing", FALSE,
                            "make a reel", Len(arg.list), TRUE, ~c.rejected)
           /\ requests' = IF c.rejected THEN requests ELSE Append(requests, c.request)
    /\ UNCHANGED <<form, prompt, isSubmitting, formError, navigated>>
    /\ UNCHANGED <<pollVars, authVars, dropVars, buttonVars>>

\* api.js 24-49, CreateJobForm.jsx 66-75: fetch settles with the outcome o,
\* apiFetch returns or throws, and the handler that awaited createJob goes
\* on: navigate to the new job (67-68), which takes the form off the page;
\* or setError with the error's message (72); then finally (74). The state
\* setters do nothing once the form is unmounted.
Respond(i, o) ==
    LET q == requests[i]
        r == ApiFetch(q.url, o)
    IN  /\ requests' = RemoveAt(requests, i)
        /\ fev' = TEvent(q.url, o, r)
        /\ IF q.caller # "form"
           THEN UNCHANGED <<form, isSubmitting, formError, navigated>>
           ELSE IF ~r.failed /\ ~r.isNull
           THEN /\ navigated' = IF r.value.job_id = Null THEN "/jobs/undefined"
                                ELSE "/jobs/" \o r.value.job_id
                /\ form' = "gone"
                /\ UNCHANGED <<isSubmitting, formError>>
           ELSE /\ IF form = "shown"
                   THEN /\ formError' = IF r.failed THEN r.error.message
                                        ELSE "Cannot read properties of null"
                        /\ isSubmitting' = q.wasSubmitting
                   ELSE UNCHANGED <<formError, isSubmitting>>
                /\ UNCHANGED <<form, navigated>>
        /\ UNCHANGED prompt
        /\ UNCHANGED <<pollVars, authVars, dropVars, buttonVars>>

FormInit ==
    /\ form = "none" /\ prompt = "" /\ isSubmitting = FALSE /\ formError = Null
    /\ requests = <<>> /\ navigated = Null /\ fev = NoFEvent

FormNext ==
    \/ MountForm
    \/ \E p \in Prompts : SetPrompt(p)
    \/ \E n \in 1..MaxFiles : HandleFileSelect(n)
    \/ ClearAll
    \/ \E click \in BOOLEAN : HandleSubmit(click)
    \/ \E arg \in FileArgs(files) : CallCreateJob(arg)
    \/ \E i \in DOMAIN requests : \E o \in Outcomes : Respond(i, o)

(***************************************************************************)
(* The session and the components that call the transport: AppContent      *)
(* (App.jsx 18-58) renders the pages, and with them the viewers and the    *)
(* form, only while the session is loaded and logged in; the components    *)
(* take the token from useAuth() at every render.                          *)
(***************************************************************************)

\* a variant of AppContent that renders the pages whatever the session is
Shown_NoGate(u, loading) == TRUE

\* App.jsx 19-34 (App.js 203: isLoggedIn is !!user): the pages are rendered
Shown(u, loading) == ~loading /\ u # NoUser

\* The commit of a change of the session, as the mounted component sees it:
\* its page is taken away when the session is no longer shown, and its
\* effects run again when the token has changed; a component that is not
\* mounted will get the token of the render that mounts it.
Follow ==
    /\ IF mounted /\ ~Shown(user', isLoading')
       THEN DoUnmount
       ELSE IF mounted /\ token' # authToken
       THEN IF viewer = "registry" THEN DoRegistryTokenChange(token')
            ELSE DoTokenChange(token')
       ELSE /\ authToken' = token'
            /\ UNCHANGED <<viewer, mounted, unmounted, jobId, job, error, jobs, fetched,
                           timer, inflight, terminalApplied, staleApplied, pev, intervals>>
    /\ form' = IF form = "shown" /\ ~Shown(user', isLoading') THEN "gone" ELSE form
    /\ UNCHANGED <<prompt, isSubmitting, formError, requests, navigated, fev>>
    /\ UNCHANGED <<dropVars, buttonVars>>

AppMountInit(initThrows, promptThrows) == DoMountInit(initThrows, promptThrows) /\ Follow

AppOldMount(initThrows) == DoOldMount(initThrows) /\ Follow

AppCredential(t) == DoHandleCredentialResponse(t) /\ Follow

AppLogout(revokeThrows) == DoLogout(revokeThrows) /\ Follow

\* the page of the component is rendered: MainPage with the job list and
\* the form, or the detail page of a job (App.jsx 34-50)
AppMountItem(j0) == Shown(user, isLoading) /\ MountItem(j0)

AppMountDetail(jid) == Shown(user, isLoading) /\ MountDetail(jid)

AppMountRegistry == Shown(user, isLoading) /\ MountRegistry

AppMountForm == Shown(user, isLoading) /\ viewer = "form" /\ MountForm

\* The inputs of the composed model are a part of those of the components:
\* the provider does not throw, an assertion is one of two decodable tokens,
\* a status response carries no result, a list is empty, and the create
\* request fails on the network, fails with 500 or succeeds.
AppTokens == {"a2", "b2"}

AppJobs == {j \in InitialJobs : j.result_payload = Null /\ j.status \in {"PENDING", "SUCCESS"}}

AppResponses(jid) ==
    {r \in Responses(jid) : r.result = Null /\ r.status \in {"PENDING", "SUCCESS"}}

AppOutcomes ==
    {o \in Outcomes : \/ o.kind = "network"
                      \/ o.status = 200 /\ o.body.job_id # Null
                      \/ o.status = 500 /\ o.body.detail # Null}

AppInit ==
    /\ viewer \in {"item", "detail", "registry", "form"}
    /\ mounted = FALSE /\ unmounted = FALSE
    /\ jobId = Null /\ authToken = Null /\ job = NoJob /\ error = Null
    /\ jobs = <<>> /\ fetched = <<>>
    /\ timer = NoTimer /\ inflight = <<>>
    /\ terminalApplied = FALSE /\ staleApplied = FALSE
    /\ pev = PEvent("none", NoFetch, NoResp, FALSE)
    /\ intervals = 0
    /\ rev \in {"new", "old"} /\ clientId = TRUE /\ google = TRUE /\ loaded = FALSE
    /\ phase = "boot" /\ initialized = FALSE /\ promptPending = FALSE
    /\ user = NoUser /\ token = Null /\ isLoading = TRUE
    /\ storage \in {Null, "a2"}
    /\ clock = 0 /\ escaped = FALSE /\ credDelivered = FALSE /\ boot = NoBoot
    /\ aev = NoEvent /\ reloads = 0 /\ loggedOut = FALSE /\ prior = NoPrior

AppNext ==
    \/ AppMountInit(FALSE, FALSE)
    \/ AppOldMount(FALSE)
    \/ \E t \in AppTokens : AppCredential(t)
    \/ AppLogout(FALSE)
    \/ \E j0 \in AppJobs : AppMountItem(j0)
    \/ AppMountDetail("jA")
    \/ AppMountRegistry
    \/ AppMountForm
    \/ Unmount
    \/ Tick
    \/ RegistryTick
    \/ \E i \in DOMAIN inflight : \E r \in AppResponses(inflight[i].jid) : CompleteOk(i, r)
    \/ \E i \in DOMAIN inflight : CompleteErr(i)
    \/ \E i \in DOMAIN inflight : ListOk(i, <<>>)
    \/ \E i \in DOMAIN inflight : ListErr(i)
    \/ SetPrompt("make a reel")
    \/ \E n \in 1..MaxFiles : HandleFileSelect(n)
    \/ HandleSubmit(TRUE)
    \/ \E i \in DOMAIN requests : \E o \in AppOutcomes : Respond(i, o)

(***************************************************************************)
(* Specifications: the viewers and the session run in separate components *)
(* that share no state in these handlers; each is checked with the others  *)
(* at rest.                                                                *)
(***************************************************************************)
PollIdle ==
    /\ viewer = "item" /\ mounted = FALSE /\ unmounted = FALSE
    /\ jobId = Null /\ authToken = "t1" /\ job = NoJob /\ error = Null
    /\ jobs = <<>> /\ fetched = <<>>
    /\ timer = NoTimer /\ inflight = <<>>
    /\ terminalApplied = FALSE /\ staleApplied = FALSE
    /\ pev = PEvent("none", NoFetch, NoResp, FALSE)
    /\ intervals = 0

UiIdle == DropInit /\ ButtonInit /\ FormInit

AuthIdle ==
    /\ rev = "new" /\ clientId = TRUE /\ google = FALSE /\ loaded = FALSE
    /\ phase = "boot" /\ initialized = FALSE /\ promptPending = FALSE
    /\ user = NoUser /\ token = Null /\ isLoading = TRUE /\ storage = Null
    /\ clock = 0 /\ escaped = FALSE /\ credDelivered = FALSE /\ boot = NoBoot
    /\ aev = NoEvent /\ reloads = 0 /\ loggedOut = FALSE /\ prior = NoPrior

PollStart == PollInit /\ AuthIdle /\ UiIdle

AuthStart == AuthInit /\ PollIdle /\ UiIdle

DropStart == DropInit /\ ButtonInit /\ FormInit /\ PollIdle /\ AuthIdle

\* The collector on its own: one drop, and the reads it starts.
DropSpec == DropStart /\ [][DropNext]_vars

SubmitStart == FormInit /\ DropInit /\ ButtonInit /\ PollIdle /\ AuthIdle /\ form = "none"

\* The form as its user drives it: every submit comes from the submit
\* button, and createJob has no caller but the form.
SubmitNext ==
    \/ MountForm
    \/ \E p \in Prompts : SetPrompt(p)
    \/ \E n \in 1..MaxFiles : HandleFileSelect(n)
    \/ ClearAll
    \/ HandleSubmit(TRUE)
    \/ \E i \in DOMAIN requests : \E o \in Outcomes : Respond(i, o)

SubmitSpec == SubmitStart /\ [][SubmitNext]_vars

UploadStart == DropInit /\ ButtonInit /\ FormInit /\ PollIdle /\ AuthIdle /\ drop = "idle"

\* The mounted form with drops and selections going on at once: one drop
\* followed read by read, further drops followed from their start to the
\* end of their await, and selections in the file input.
UploadNext ==
    \/ MountForm
    \/ \E kinds \in Drops : HandleDrop(kinds)
    \/ \E p \in DOMAIN nodes : FileRead(p)
    \/ \E p \in DOMAIN nodes : FileReadFails(p)
    \/ \E p \in DOMAIN nodes : \E batch \in Batches(p) : \E more \in 0..MaxMore :
           ReadEntries(p, batch, more)
    \/ \E p \in DOMAIN nodes : ReadEntriesFails(p)
    \/ \E n \in 0..MaxOffered : HandleOtherDrop(n)
    \/ \E i \in DOMAIN others : OtherDropSettles(i)
    \/ \E n \in 1..MaxFiles : HandleFileSelect(n)

UploadSpec == UploadStart /\ [][UploadNext]_vars

ButtonStart == ButtonInit /\ ButtonAuth /\ DropInit /\ FormInit /\ PollIdle

FormStart == FormInit /\ DropInit /\ ButtonInit /\ PollIdle /\ AuthIdle

\* The create-job form and the transport on their own; the form holds the
\* token of the session it was rendered in.
FormSpec == FormStart /\ [][FormNext]_vars

AppStart == AppInit /\ UiIdle

\* The session together with one component that calls the transport.
AppSpec == AppStart /\ [][AppNext]_vars

\* The sign-in button on its own, with the provider's script and the clock.
ButtonSpec == ButtonStart /\ [][ButtonNext]_vars

PollSpec == PollStart /\ [][PollNext]_vars

\* The refresh of the job list on its own: the Sidebar is mounted and its
\* fetches resolve with every list up to MaxJobs jobs.
ListStart == PollInit /\ AuthIdle /\ UiIdle /\ viewer = "registry"

ListNext ==
    \/ MountRegistry
    \/ \E i \in DOMAIN inflight : \E l \in FetchedLists : ListOk(i, l)

ListSpec == ListStart /\ [][ListNext]_vars

AuthSpec == AuthStart /\ [][AuthNext]_vars

\* The boot sequence is not held up for ever: React runs the mount effect
\* once the provider component is committed (App.js 71-160), and the browser
\* fires the window's load event once the page's resources are settled.
AuthFairness ==
    /\ WF_vars(MountNoClientId)
    /\ WF_vars(\E it, pt \in BOOLEAN : MountInit(it, pt))
    /\ WF_vars(MountWait)
    /\ WF_vars(\E it \in BOOLEAN : OldMount(it))
    /\ WF_vars(\E it, pt \in BOOLEAN : WindowLoadInit(it, pt))
    /\ WF_vars(WindowLoad)

AuthLiveSpec == AuthStart /\ [][AuthNext]_vars /\ AuthFairness


(***************************************************************************)
(* Claims on the per-job polling                                           *)
(***************************************************************************)

\* C1 (poll termination): once a response with a terminal status (SUCCESS or
\* FAILURE) of the current subscription has been applied, the viewer issues
\* no further tick fetch until a fresh subscription (mount, new job id, new
\* token) is created. Stated for the subscriptions into which no cancelled
\* fetch has settled, so that only ticks and completions of the subscription
\* itself interleave.
C1_PollTermination ==
    (pev.op = "tick" /\ ~staleApplied) => ~terminalApplied

\* C2 (cancellation): a fetch whose subscription was cancelled (unmount, or a
\* change of job id or token) while it was in flight causes no update of the
\* snapshot when it settles.
C2_CancelledFetchIsInert ==
    (pev.op \in {"ok", "err"} /\ pev.fetch.cancelled) => ~pev.changed

\* C3 (atomic merge): after every successful tick of a live subscription the
\* snapshot's status and result_payload are both those of that response.
C3_AtomicMerge ==
    (pev.op = "ok" /\ pev.fetch.kind = "tick" /\ ~pev.fetch.cancelled)
        => (job.status = pev.resp.status /\ job.result_payload = pev.resp.result)

\* C4 (fail fast): after a tick's fetch failed, the snapshot is FAILURE with
\* the synthetic payload and no interval is live, for both viewers.
C4_FailFast ==
    (pev.op = "err" /\ pev.fetch.kind = "tick" /\ ~pev.fetch.cancelled)
        => (job.status = "FAILURE" /\ job.result_payload = ErrorPayload
            /\ timer = NoTimer)

(***************************************************************************)
(* Claims on the session lifecycle                                         *)
(***************************************************************************)
\* the boot sequence read a decodable stored token with exp*1000 <= now
ExpiredAtBoot ==
    /\ boot.read
    /\ boot.tok \in Decodable
    /\ jwtDecode(boot.tok).exp * 1000 <= boot.now

FailureKinds == {"notDisplayed", "skipped", "dismissed"}

\* C5 (expiry at boot): when init read a stored token with exp*1000 <= now,
\* then, as long as no credential came through the callback, nobody is logged
\* in, the token is gone from storage, and init either invoked the silent
\* prompt or ended the loading state.
C5_ExpiredAtBootNotTrusted ==
    (ExpiredAtBoot /\ ~credDelivered)
        => (user = NoUser /\ token = Null /\ storage = Null
            /\ (boot.prompted \/ ~isLoading))

\* the stored token expired exactly at the instant init read it, and the
\* silent prompt is under way
C5_Witness ==
    /\ ExpiredAtBoot
    /\ jwtDecode(boot.tok).exp * 1000 = boot.now
    /\ promptPending /\ isLoading /\ ~credDelivered

\* C6: in every reachable state a logged-in user's credential is unexpired:
\* exp*1000 > now.
C6_NeverAuthenticatedExpired ==
    user # NoUser => user.exp * 1000 > NowMs

\* C7 (single session): user and token are both absent, or the user is the
\* decoded payload of exactly the raw token held.
C7_UserMatchesToken ==
    \/ (user = NoUser /\ token = Null)
    \/ (token \in Decodable /\ user = jwtDecode(token))

\* a credential callback replaced a live session that held another token
C7_Witness ==
    /\ aev.op = "credential"
    /\ aev.tokenBefore \in Decodable
    /\ token \in Decodable
    /\ aev.tokenBefore # token

\* C8 (current revision): init on an expired stored token, its prompt call
\* having returned, leaves the token removed and the prompt pending; and while
\* the prompt's flow has reported no failure and no credential has come
\* through the callback, the session is still loading with nobody logged in.
C8_ResolvingWhilePromptPending ==
    rev = "new" =>
        /\ (aev.op = "init" /\ ExpiredAtBoot /\ ~boot.threw)
               => (promptPending /\ storage = Null /\ isLoading)
        /\ (promptPending /\ ~credDelivered)
               => (isLoading /\ user = NoUser /\ storage = Null)

\* the prompt was displayed (a notification that is no failure) and the
\* session is still resolving
C8_Witness ==
    /\ rev = "new" /\ ExpiredAtBoot
    /\ aev.op = "notify" /\ aev.arg = "displayed"
    /\ promptPending /\ isLoading

\* C9: after a notification of not displayed, skipped or dismissed the
\* session is not loading; it is logged out if no credential was delivered,
\* and a session that was logged in stays logged in with the same token.
C9_FailureNotification ==
    (aev.op = "notify" /\ aev.arg \in FailureKinds)
        => /\ ~isLoading
           /\ ~credDelivered => (user = NoUser /\ token = Null)
           /\ aev.userBefore # NoUser
                  => (user = aev.userBefore /\ token = aev.tokenBefore)

\* the dismissed notification arrived after the credential
C9_Witness ==
    /\ aev.op = "notify" /\ aev.arg \in FailureKinds
    /\ aev.userBefore # NoUser /\ user = aev.userBefore /\ ~isLoading

\* C10: after the callback received a decodable assertion, the user is its
\* payload, the token and the stored token are that assertion, and the
\* session is not loading.
C10_CredentialAuthenticates ==
    (aev.op = "credential" /\ aev.arg \in Decodable)
        => (user = jwtDecode(aev.arg) /\ token = aev.arg /\ storage = aev.arg
            /\ ~isLoading)

\* the assertion arrived while the session was resolving
C10_Witness ==
    /\ aev.op = "credential" /\ aev.arg \in Decodable
    /\ aev.loadingBefore /\ token = aev.arg

\* C11 (current revision): after an init or a credential callback in which a
\* decoding failure or a provider exception happened (reading the stored
\* token, provider initialize or prompt, decoding the assertion in the
\* callback), no token is stored, nobody is logged in, the session is not
\* loading, and the exception did not leave the handler.
C11_FailureEndsUnauthenticated ==
    (rev = "new" /\ aev.op \in {"init", "credential"} /\ aev.threw)
        => (storage = Null /\ user = NoUser /\ token = Null /\ ~isLoading
            /\ ~aev.uncaught)

\* C12 (current revision): when the provider's global object never appears,
\* whether the load event fires after the mount or fired before it, the
\* session eventually stops loading and stays logged out.
C12_ProviderUnavailableEndsUnauthenticated ==
    (rev = "new" /\ [](~google)) => <>[](~isLoading /\ user = NoUser)

\* C13: after logout nobody is logged in, no token is held or stored, the
\* session is not loading, and no exception of the revocation left logout.
C13_LogoutAlwaysSucceeds ==
    aev.op = "logout"
        => (user = NoUser /\ token = Null /\ storage = Null /\ ~isLoading
            /\ ~aev.uncaught)

\* C14 (persistence round trip): when the page is reloaded with a session
\* that a credential callback had logged in with token T, and the new init
\* runs through, with no provider exception, at a time when T is unexpired,
\* then the user is the payload of T, the token held and the token stored are
\* T, the session is not loading, and the silent prompt was not invoked.
C14_ReloadKeepsSession ==
    (aev.op = "init" /\ ~aev.threw /\ prior.reloaded /\ prior.tok \in Decodable
        /\ jwtDecode(prior.tok).exp * 1000 > boot.now)
        => (user = jwtDecode(prior.tok) /\ token = prior.tok /\ storage = prior.tok
            /\ ~isLoading /\ ~boot.prompted /\ ~promptPending)

\* the reload came some time after the credential, and found it unexpired
C14_Witness ==
    /\ aev.op = "init" /\ ~aev.threw
    /\ prior.reloaded /\ prior.tok \in Decodable
    /\ boot.now > 0
    /\ token = prior.tok /\ storage = prior.tok

\* C15: an init after a reload of a session that logout had ended leaves
\* nobody logged in, nothing stored and the silent prompt not invoked; when
\* it came to read the storage it found no token and ended the loading state.
C15_ReloadAfterLogout ==
    (aev.op = "init" /\ prior.reloaded /\ prior.loggedOut)
        => /\ user = NoUser /\ token = Null /\ storage = Null
           /\ ~boot.prompted /\ ~promptPending
           /\ boot.read => (boot.tok = Null /\ ~isLoading)

\* the session that was logged out had been logged in by a credential that
\* is still unexpired at the reload
C15_Witness ==
    /\ aev.op = "init" /\ prior.reloaded /\ prior.loggedOut
    /\ boot.read /\ boot.tok = Null
    /\ user = NoUser /\ ~isLoading

(***************************************************************************)
(* Claims on subscriptions, teardown and the job list                      *)
(***************************************************************************)
\* the fetches in flight that belong to the current subscription and were
\* issued as its immediate fetch
LiveInitialFetches ==
    {i \in DOMAIN inflight : ~inflight[i].cancelled /\ inflight[i].kind = "initial"}

\* C16: a subscription of the detail page (mount, new job id, new token)
\* issues exactly one immediate status fetch; once the immediate fetch of the
\* current subscription has resolved, the interval is live if and only if the
\* status it brought is PENDING or PROGRESS; once it has failed, no interval
\* is live. (A JobItem is handed its first snapshot by the list that renders
\* it and fetches nothing at mount.) Stated for the subscriptions into which
\* no cancelled fetch has settled.
C16_SubscribeFetchThenTick ==
    /\ (viewer = "detail" /\ pev.op \in {"mount", "route", "token"})
           => Cardinality(LiveInitialFetches) = 1
    /\ (pev.op = "ok" /\ pev.fetch.kind = "initial" /\ ~pev.fetch.cancelled
            /\ ~staleApplied)
           => (timer # NoTimer <=> IsActive(pev.resp.status))
    /\ (pev.op = "err" /\ pev.fetch.kind = "initial" /\ ~pev.fetch.cancelled
            /\ ~staleApplied)
           => timer = NoTimer

\* C17: once a viewer (per-job or job list) was torn down, its interval is
\* cleared, the only handlers that still run are the settlements of fetches
\* issued before the teardown, and running the teardown again changes
\* nothing; and a tick always belongs to the loop of the current token and
\* job id, never to a loop that a change of them tore down.
C17_TeardownFinal ==
    /\ unmounted
           => /\ timer = NoTimer
              /\ pev.op \in {"unmount", "teardown", "ok", "err", "list", "listerr"}
              /\ \A i \in DOMAIN inflight : inflight[i].gone
    /\ pev.op = "teardown" => ~pev.changed
    /\ pev.op \in {"tick", "refresh"}
           => /\ pev.fetch.tok = authToken
              /\ viewer # "registry" => pev.fetch.jid = jobId

\* the teardown was repeated while a fetch issued before it is in flight
C17_Witness ==
    /\ unmounted /\ pev.op = "teardown"
    /\ Len(inflight) > 0

\* C18: when a fetch of the live subscription resolves after a fetch issued
\* later than it has already settled, the snapshot's status and
\* result_payload are those of its response, the one that completed last.
C18_LastCompletedWins ==
    (pev.op = "ok" /\ ~pev.fetch.cancelled /\ pev.fetch.overtaken)
        => (job.status = pev.resp.status /\ job.result_payload = pev.resp.result)

\* place of the job with id k in list l
PlaceOf(l, k) == CHOOSE i \in DOMAIN l : l[i].job_id = k

\* C19 (list ordering): after a list response was applied, the job list is
\* a permutation of the fetched list in which no other job precedes a
\* PENDING/PROGRESS job and, within each of the two groups, a job that
\* precedes another was created later, or at the same time and then came
\* first in the fetched list.
C19_ListOrdering ==
    (pev.op = "list" /\ ~pev.fetch.gone)
        => /\ Len(jobs) = Len(fetched)
           /\ {jobs[i] : i \in DOMAIN jobs} = {fetched[i] : i \in DOMAIN fetched}
           /\ \A i, j \in DOMAIN jobs :
                  i < j =>
                      /\ IsActive(jobs[j].status) => IsActive(jobs[i].status)
                      /\ (IsActive(jobs[i].status) <=> IsActive(jobs[j].status))
                             => \/ jobs[i].created_at > jobs[j].created_at
                                \/ /\ jobs[i].created_at = jobs[j].created_at
                                   /\ PlaceOf(fetched, jobs[i].job_id)
                                          < PlaceOf(fetched, jobs[j].job_id)

\* a fetched list that the refresh had to reorder, with jobs of both groups
\* and two jobs of one group created at the same time
C19_Witness ==
    /\ pev.op = "list" /\ ~pev.fetch.gone
    /\ Len(fetched) = MaxJobs
    /\ jobs # fetched
    /\ \E i, j \in DOMAIN jobs : IsActive(jobs[i].status) /\ ~IsActive(jobs[j].status)
    /\ \E i, j \in DOMAIN jobs :
           /\ i < j
           /\ jobs[i].created_at = jobs[j].created_at
           /\ (IsActive(jobs[i].status) <=> IsActive(jobs[j].status))

\* C20: while the job list is mounted its interval is live, whatever the
\* list holds, whether or not the last refresh failed and whatever is in
\* flight; and every tick of it issued a list fetch with the current token.
C20_RefreshEveryTick ==
    viewer = "registry"
        => /\ mounted => (timer # NoTimer /\ timer.tok = authToken)
           /\ pev.op = "refresh"
                  => /\ Len(inflight) > 0
                     /\ inflight[Len(inflight)] = pev.fetch
                     /\ pev.fetch.tok = authToken

\* a tick issued a refresh although the last refresh failed, an earlier one
\* is still in flight and no job of the list is active
C20_Witness ==
    /\ viewer = "registry" /\ mounted
    /\ pev.op = "refresh"
    /\ error # Null
    /\ Len(inflight) > 1
    /\ \A i \in DOMAIN inflight : ~inflight[i].cancelled
    /\ \A i \in DOMAIN jobs : ~IsActive(jobs[i].status)

(***************************************************************************)
(* Claims on the upload collector                                          *)
(***************************************************************************)
RECURSIVE Listing(_, _, _), ListingFrom(_, _, _, _)
\* The depth-first listing of the files below p, in the order the entries
\* are reported; an entry whose read failed contributes nothing. With
\* `all`, the files a directory holds beyond its first batch are listed
\* after the entries of that batch.
Listing(ns, p, all) ==
    IF ns[p].st = "failed" THEN <<>>
    ELSE IF ns[p].kind = "file" THEN <<FileAt(p)>>
    ELSE ListingFrom(ns, p, 1, all)
         \o (IF all THEN [k \in 1..ns[p].more |-> FileAt(Append(p, MaxBatch + k))] ELSE <<>>)

ListingFrom(ns, p, i, all) ==
    IF i > ns[p].n THEN <<>>
    ELSE Listing(ns, Append(p, i), all) \o ListingFrom(ns, p, i + 1, all)

Range(f) == {f[i] : i \in DOMAIN f}

\* C21 (complete enumeration): when the collection of a drop has completed,
\* every file of every directory it met is among the files, those the
\* directory delivers after its first batch included.
C21_AllBatchesRead ==
    drop = "done" => Range(Listing(nodes, <<>>, TRUE)) \subseteq Range(files)

\* C22 (leaf count): when the collection of a drop has completed, the number
\* of collected files is the number of file leaves of the dropped tree, in
\* whatever order the reads completed.
C22_LeafCount ==
    drop = "done" => Len(files) = Len(Listing(nodes, <<>>, TRUE))

\* C23 (depth-first order): when the collection of a drop has completed, the
\* collected sequence is the depth-first listing of the dropped entries in
\* the order reported, in whatever order the reads completed; files of the
\* same base name in different directories are all there.
C23_DepthFirstOrder ==
    drop = "done" => files = Listing(nodes, <<>>, TRUE)

\* C24 (failed entry): when a read of an entry has failed and no read is
\* outstanding, the collection has completed with the files of the entries
\* that could be read, the failed entry contributing none.
C24_FailedEntrySkipped ==
    (drop # "idle" /\ Failed(nodes) /\ ~Pending(nodes))
        => (drop = "done" /\ files = Listing(nodes, <<>>, FALSE))

(***************************************************************************)
(* Claims on the sign-in button                                            *)
(***************************************************************************)

C26_FailureCarriesStatusAndUrl ==
    (fev.op = "settled" /\ (fev.outcome.kind = "network" \/ ~IsOk(fev.outcome.status)))
        => (/\ fev.result.failed
            /\ fev.result.error.url = fev.url
            /\ fev.outcome.kind = "response" => fev.result.error.status = fev.outcome.status)

\* C27 (no empty create request): a submit of the form with a blank prompt
\* or without files sets the form's error and calls neither createJob nor
\* the transport; createJob with a missing or empty file list rejects and
\* does not call the transport; no request in flight carries zero files.
C27_NoEmptyCreate ==
    /\ (fev.op = "submit" /\ (Trim(fev.prompt) = "" \/ fev.nfiles = 0))
            => (/\ formError = "Please provide a prompt and at least one file."
                /\ ~fev.createCalled /\ ~fev.transportCalled)
    /\ (fev.op \in {"create", "createMissing"} /\ fev.nfiles = 0) => ~fev.transportCalled
    /\ \A i \in DOMAIN requests : requests[i].nfiles > 0

C27_Witness ==
    /\ fev.op = "submit" /\ fev.click /\ fev.prompt = " " /\ fev.nfiles > 0
    /\ formError = "Please provide a prompt and at least one file."
    /\ requests = <<>>

(***************************************************************************)
(* Claims on the session and the requests                                  *)
(***************************************************************************)
\* the status and list fetches, and the create requests, a step issues
NewFetches == IF Len(inflight') > Len(inflight) THEN {inflight'[Len(inflight')]} ELSE {}

NewRequests == IF Len(requests') > Len(requests) THEN {requests'[Len(requests')]} ELSE {}

\* C28 (requests need a session): every step that issues a list, status or
\* create request ends in a state where the session is loaded and logged
\* in with a token, and the request carries that token.
C28_RequestsCarrySessionToken ==
    [][\A q \in NewFetches \cup NewRequests :
           /\ ~isLoading' /\ user' # NoUser /\ token' # Null
           /\ q.tok = token']_vars

C28_Witness ==
    /\ credDelivered /\ user # NoUser /\ token # Null
    /\ \E i \in DOMAIN inflight : inflight[i].tok = token /\ ~inflight[i].cancelled
    /\ \E i \in DOMAIN inflight : inflight[i].tok # token /\ inflight[i].cancelled

(***************************************************************************)
(* Claims on the snapshot's status and on the intervals                    *)
(***************************************************************************)
\* C29 (terminal is final): once the snapshot's status is terminal (SUCCESS
\* or FAILURE, the FAILURE set on a rejected poll included), no fetch of the
\* same subscription that settles afterwards turns it back to PENDING or
\* PROGRESS. Stated on the steps that settle a fetch which no unmount and no
\* change of token or job id has cancelled, from a snapshot whose terminal
\* status was set in the current subscription: in JobItem a fetch is only in
\* flight uncancelled when the subscription began with an active status; in
\* JobDetailPage a terminal response of the subscription has been applied.
C29_TerminalIsFinal ==
    [][(/\ job # NoJob /\ IsTerminal(job.status)
        /\ (viewer = "item" \/ terminalApplied)
        /\ pev'.op \in {"ok", "err"} /\ ~pev'.fetch.cancelled)
           => ~IsActive(job'.status)]_vars

\* C30 (one live interval): a viewer has at most one interval set and not
\* cleared, whatever status changes, token changes, job-id changes and
\* unmounts came before; JobItem and JobDetailPage have one only while the
\* snapshot's status is PENDING or PROGRESS, and an unmounted viewer has none.
C30_OneLiveInterval ==
    /\ intervals \in {0, 1}
    /\ intervals = 1 <=> timer # NoTimer
    /\ (viewer # "registry" /\ intervals > 0) => (job # NoJob /\ IsActive(job.status))
    /\ ~mounted => intervals = 0

C30_Witness ==
    /\ pev.op = "token" /\ mounted
    /\ intervals = 1 /\ inflight # <<>>

(***************************************************************************)
(* Claims on the session's phases                                          *)
(***************************************************************************)
\* C31 (resolving is left once): in every state a user that is set implies
\* that isLoading is false, and a handler that ran with isLoading false
\* (a credential callback, a logout, a notification, the mount effect) has
\* left it false; only a reload of the page starts loading again.
C31_ResolvingNotReentered ==
    /\ user # NoUser => ~isLoading
    /\ (aev.op \notin {"none", "reload"} /\ ~aev.loadingBefore) => ~isLoading

C31_Witness ==
    /\ aev.op = "logout" /\ ~aev.loadingBefore /\ ~isLoading
    /\ credDelivered /\ boot.prompted

\* C32 (authenticated sessions are stored): in every state with a user set,
\* the in-memory token is set and localStorage holds exactly that token,
\* after any run of init, credential callbacks, prompt notifications,
\* logouts and reloads.
C32_AuthenticatedIsStored ==
    user # NoUser => (token # Null /\ storage = token)

C32_Witness ==
    /\ aev.op = "credential" /\ user # NoUser /\ storage = token
    /\ loggedOut = FALSE /\ aev.tokenBefore = Null
    /\ boot.tok \notin {Null, token}

(***************************************************************************)
(* Claims on the job detail page and the job list                          *)
(***************************************************************************)
\* C33 (no fields of another job): when JobDetailPage shows a snapshot, the
\* snapshot was fetched for the job id of the route. The page shows the
\* snapshot when no load is going on and no error is set
\* (JobDetailPage.jsx 115-141); stated for the states in which every fetch
\* has settled, where isLoading is false whatever the order of the
\* settlements was.
C33_SnapshotIsOfRouteJob ==
    (/\ viewer = "detail" /\ mounted /\ inflight = <<>>
     /\ error = Null /\ job # NoJob)
        => job.job_id = jobId

\* C34 (failed refresh keeps the list): a refresh of the mounted job list
\* that fails leaves the displayed list as it was and sets the error
\* message; a refresh that succeeds replaces the list by the fetched jobs
\* and clears the error message.
C34_FailedRefreshKeepsList ==
    [][(viewer = "registry" /\ mounted /\ Len(inflight') < Len(inflight))
          => /\ pev'.op = "listerr" => (jobs' = jobs /\ error' # Null)
             /\ pev'.op = "list"
                    => /\ error' = Null
                       /\ Len(jobs') = Len(fetched')
                       /\ Range(jobs') = Range(fetched')]_vars

C34_Witness ==
    /\ viewer = "registry" /\ mounted
    /\ pev.op = "listerr" /\ ~pev.fetch.cancelled
    /\ error # Null /\ jobs # <<>>

(***************************************************************************)
(* Claims on the form's file list                                          *)
(***************************************************************************)
\* how many times x occurs in the list l
Count(l, x) == Cardinality({i \in DOMAIN l : l[i] = x})

\* the lists a and b hold the same files, each as many times
SameFiles(a, b) ==
    /\ Len(a) = Len(b)
    /\ \A x \in Range(a) \cup Range(b) : Count(a, x) = Count(b, x)

\* C35 (drops never lose files): once every drop and selection that was
\* going on has completed, a drop and at least one further drop or
\* selection among them, the file list holds every file of every drop, the
\* files below the dropped directories included, and every selected file,
\* each as many times as it was brought, and nothing else.
C35_NoFileLost ==
    (drop = "done" /\ others = <<>> /\ offered # <<>>)
        => SameFiles(files, offered \o Listing(nodes, <<>>, TRUE))

\* C36 (one submission at a time): with the submit button as the only way
\* to submit, at most one createJob request of the form is in flight, and
\* whenever the form is on the page with no request in flight, a submission
\* that ended with an error included, isSubmitting is false, so that the
\* button is enabled again as soon as there are files.
C36_OneSubmission ==
    /\ Len(requests) <= 1
    /\ (form = "shown" /\ requests = <<>>) => ~isSubmitting
    /\ (form = "shown" /\ requests # <<>>) => isSubmitting

C36_Witness ==
    /\ fev.op = "settled" /\ fev.result.failed
    /\ form = "shown" /\ requests = <<>>
    /\ ~isSubmitting /\ formError # Null /\ files # <<>>

====
